---- MODULE Spec2Model ----
(***************************************************************************)
(* Model of convert_pg_to_sqlite.py: a straight-line script that reads a   *)
(* Drizzle pg-core schema file, applies an ordered list of literal and     *)
(* regular-expression substitutions to the text buffer `content`, writes   *)
(* the buffer to the destination file and prints a completion message.     *)
(*                                                                         *)
(* Text is modelled as the sequence of its code points, and the contents   *)
(* of a file as the sequence of its bytes; Len, SubSeq and \o give length,  *)
(* slicing and concatenation.                                              *)
(***************************************************************************)
EXTENDS Integers, Sequences, FiniteSets, TLC

(***************************************************************************)
(* Text literals.                                                          *)
(***************************************************************************)

\* the ASCII characters 32..95 and 97..126 in code point order (96, the
\* backquote, cannot be written in a TLA+ string)
AsciiLow == " !\"#$%&'()*+,-./0123456789:;<=>?@ABCDEFGHIJKLMNOPQRSTUVWXYZ[\\]^_"

AsciiHigh == "abcdefghijklmnopqrstuvwxyz{|}~"

\* the code point of a character given as a one-character string
CharCode(c) ==
    CASE c = "\t" -> 9
      [] c = "\n" -> 10
      [] c = "\f" -> 12
      [] c = "\r" -> 13
      [] \E k \in 1..Len(AsciiLow) : SubSeq(AsciiLow, k, k) = c ->
             31 + (CHOOSE k \in 1..Len(AsciiLow) : SubSeq(AsciiLow, k, k) = c)
      [] OTHER ->
             96 + (CHOOSE k \in 1..Len(AsciiHigh) : SubSeq(AsciiHigh, k, k) = c)

CodeTable ==
    [ c \in { "\t", "\n", "\f", "\r" }
            \cup { SubSeq(AsciiLow, k, k) : k \in 1..Len(AsciiLow) }
            \cup { SubSeq(AsciiHigh, k, k) : k \in 1..Len(AsciiHigh) } |-> CharCode(c) ]

\* the text of a literal: the sequence of the code points of its characters
T(str) == SubSeq([ i \in 1..Len(str) |-> CodeTable[SubSeq(str, i, i)] ], 1, Len(str))

\* the backquote
Backquote == << 96 >>

(***************************************************************************)
(* String primitives (Python str / re semantics).                          *)
(***************************************************************************)

\* s[i] as a one-character text (empty past either end)
CharAt(s, i) == IF i >= 1 /\ i <= Len(s) THEN SubSeq(s, i, i) ELSE << >>

\* s[i-1:] in Python terms: the text from position i to the end
From(s, i) == SubSeq(s, i, Len(s))

\* does the literal lit occur in s starting exactly at position i
StartsAt(s, lit, i) ==
    /\ i >= 1
    /\ i + Len(lit) - 1 <= Len(s)
    /\ CharAt(s, i) = CharAt(lit, 1)
    /\ SubSeq(s, i, i + Len(lit) - 1) = lit

\* the least element of a non-empty set of positions
Least(S) == CHOOSE k \in S : \A j \in S : k <= j

\* str.find: the first position >= i where lit occurs, 0 when there is none
Find(s, lit, i) ==
    LET hits == { k \in i..(Len(s) - Len(lit) + 1) : StartsAt(s, lit, k) }
    IN  IF hits = {} THEN 0 ELSE Least(hits)

Contains(s, lit) == Find(s, lit, 1) # 0

StartsWith(s, lit) == StartsAt(s, lit, 1)

\* the first position >= i holding the character c, 0 when there is none
FindChar(s, c, i) ==
    LET hits == { k \in i..Len(s) : SubSeq(s, k, k) = c }
    IN  IF hits = {} THEN 0 ELSE Least(hits)

\* str.replace(old, new): leftmost, non-overlapping occurrences, scanning from i
RECURSIVE StrReplaceFrom(_, _, _, _)
StrReplaceFrom(s, old, new, i) ==
    LET k == Find(s, old, i)
    IN  IF k = 0 THEN From(s, i)
        ELSE SubSeq(s, i, k - 1) \o new \o StrReplaceFrom(s, old, new, k + Len(old))

StrReplace(s, old, new) == StrReplaceFrom(s, old, new, 1)

\* re.sub of a pattern that is a fully escaped literal: the same leftmost,
\* non-overlapping scan as str.replace
ReSubLiteral(s, lit, repl) == StrReplaceFrom(s, lit, repl, 1)

\* \w of a str pattern (Unicode matching): the underscore and every code
\* point that is alphanumeric (str.isalnum).  Below 128 these are 0-9, A-Z,
\* _ and a-z.  WordRanges lists in order the ranges of the alphanumeric code
\* points from 128 up (Unicode 14.0, the character database of Python 3.11).
WordRanges ==
    << <<170, 170>>, <<178, 179>>, <<181, 181>>, <<185, 186>>, <<188, 190>>, <<192, 214>>,
       <<216, 246>>, <<248, 705>>, <<710, 721>>, <<736, 740>>, <<748, 748>>, <<750, 750>>,
       <<880, 884>>, <<886, 887>>, <<890, 893>>, <<895, 895>>, <<902, 902>>, <<904, 906>>,
       <<908, 908>>, <<910, 929>>, <<931, 1013>>, <<1015, 1153>>, <<1162, 1327>>, <<1329, 1366>>,
       <<1369, 1369>>, <<1376, 1416>>, <<1488, 1514>>, <<1519, 1522>>, <<1568, 1610>>, <<1632, 1641>>,
       <<1646, 1647>>, <<1649, 1747>>, <<1749, 1749>>, <<1765, 1766>>, <<1774, 1788>>, <<1791, 1791>>,
       <<1808, 1808>>, <<1810, 1839>>, <<1869, 1957>>, <<1969, 1969>>, <<1984, 2026>>, <<2036, 2037>>,
       <<2042, 2042>>, <<2048, 2069>>, <<2074, 2074>>, <<2084, 2084>>, <<2088, 2088>>, <<2112, 2136>>,
       <<2144, 2154>>, <<2160, 2183>>, <<2185, 2190>>, <<2208, 2249>>, <<2308, 2361>>, <<2365, 2365>>,
       <<2384, 2384>>, <<2392, 2401>>, <<2406, 2415>>, <<2417, 2432>>, <<2437, 2444>>, <<2447, 2448>>,
       <<2451, 2472>>, <<2474, 2480>>, <<2482, 2482>>, <<2486, 2489>>, <<2493, 2493>>, <<2510, 2510>>,
       <<2524, 2525>>, <<2527, 2529>>, <<2534, 2545>>, <<2548, 2553>>, <<2556, 2556>>, <<2565, 2570>>,
       <<2575, 2576>>, <<2579, 2600>>, <<2602, 2608>>, <<2610, 2611>>, <<2613, 2614>>, <<2616, 2617>>,
       <<2649, 2652>>, <<2654, 2654>>, <<2662, 2671>>, <<2674, 2676>>, <<2693, 2701>>, <<2703, 2705>>,
       <<2707, 2728>>, <<2730, 2736>>, <<2738, 2739>>, <<2741, 2745>>, <<2749, 2749>>, <<2768, 2768>>,
       <<2784, 2785>>, <<2790, 2799>>, <<2809, 2809>>, <<2821, 2828>>, <<2831, 2832>>, <<2835, 2856>>,
       <<2858, 2864>>, <<2866, 2867>>, <<2869, 2873>>, <<2877, 2877>>, <<2908, 2909>>, <<2911, 2913>>,
       <<2918, 2927>>, <<2929, 2935>>, <<2947, 2947>>, <<2949, 2954>>, <<2958, 2960>>, <<2962, 2965>>,
       <<2969, 2970>>, <<2972, 2972>>, <<2974, 2975>>, <<2979, 2980>>, <<2984, 2986>>, <<2990, 3001>>,
       <<3024, 3024>>, <<3046, 3058>>, <<3077, 3084>>, <<3086, 3088>>, <<3090, 3112>>, <<3114, 3129>>,
       <<3133, 3133>>, <<3160, 3162>>, <<3165, 3165>>, <<3168, 3169>>, <<3174, 3183>>, <<3192, 3198>>,
       <<3200, 3200>>, <<3205, 3212>>, <<3214, 3216>>, <<3218, 3240>>, <<3242, 3251>>, <<3253, 3257>>,
       <<3261, 3261>>, <<3293, 3294>>, <<3296, 3297>>, <<3302, 3311>>, <<3313, 3314>>, <<3332, 3340>>,
       <<3342, 3344>>, <<3346, 3386>>, <<3389, 3389>>, <<3406, 3406>>, <<3412, 3414>>, <<3416, 3425>>,
       <<3430, 3448>>, <<3450, 3455>>, <<3461, 3478>>, <<3482, 3505>>, <<3507, 3515>>, <<3517, 3517>>,
       <<3520, 3526>>, <<3558, 3567>>, <<3585, 3632>>, <<3634, 3635>>, <<3648, 3654>>, <<3664, 3673>>,
       <<3713, 3714>>, <<3716, 3716>>, <<3718, 3722>>, <<3724, 3747>>, <<3749, 3749>>, <<3751, 3760>>,
       <<3762, 3763>>, <<3773, 3773>>, <<3776, 3780>>, <<3782, 3782>>, <<3792, 3801>>, <<3804, 3807>>,
       <<3840, 3840>>, <<3872, 3891>>, <<3904, 3911>>, <<3913, 3948>>, <<3976, 3980>>, <<4096, 4138>>,
       <<4159, 4169>>, <<4176, 4181>>, <<4186, 4189>>, <<4193, 4193>>, <<4197, 4198>>, <<4206, 4208>>,
       <<4213, 4225>>, <<4238, 4238>>, <<4240, 4249>>, <<4256, 4293>>, <<4295, 4295>>, <<4301, 4301>>,
       <<4304, 4346>>, <<4348, 4680>>, <<4682, 4685>>, <<4688, 4694>>, <<4696, 4696>>, <<4698, 4701>>,
       <<4704, 4744>>, <<4746, 4749>>, <<4752, 4784>>, <<4786, 4789>>, <<4792, 4798>>, <<4800, 4800>>,
       <<4802, 4805>>, <<4808, 4822>>, <<4824, 4880>>, <<4882, 4885>>, <<4888, 4954>>, <<4969, 4988>>,
       <<4992, 5007>>, <<5024, 5109>>, <<5112, 5117>>, <<5121, 5740>>, <<5743, 5759>>, <<5761, 5786>>,
       <<5792, 5866>>, <<5870, 5880>>, <<5888, 5905>>, <<5919, 5937>>, <<5952, 5969>>, <<5984, 5996>>,
       <<5998, 6000>>, <<6016, 6067>>, <<6103, 6103>>, <<6108, 6108>>, <<6112, 6121>>, <<6128, 6137>>,
       <<6160, 6169>>, <<6176, 6264>>, <<6272, 6276>>, <<6279, 6312>>, <<6314, 6314>>, <<6320, 6389>>,
       <<6400, 6430>>, <<6470, 6509>>, <<6512, 6516>>, <<6528, 6571>>, <<6576, 6601>>, <<6608, 6618>>,
       <<6656, 6678>>, <<6688, 6740>>, <<6784, 6793>>, <<6800, 6809>>, <<6823, 6823>>, <<6917, 6963>>,
       <<6981, 6988>>, <<6992, 7001>>, <<7043, 7072>>, <<7086, 7141>>, <<7168, 7203>>, <<7232, 7241>>,
       <<7245, 7293>>, <<7296, 7304>>, <<7312, 7354>>, <<7357, 7359>>, <<7401, 7404>>, <<7406, 7411>>,
       <<7413, 7414>>, <<7418, 7418>>, <<7424, 7615>>, <<7680, 7957>>, <<7960, 7965>>, <<7968, 8005>>,
       <<8008, 8013>>, <<8016, 8023>>, <<8025, 8025>>, <<8027, 8027>>, <<8029, 8029>>, <<8031, 8061>>,
       <<8064, 8116>>, <<8118, 8124>>, <<8126, 8126>>, <<8130, 8132>>, <<8134, 8140>>, <<8144, 8147>>,
       <<8150, 8155>>, <<8160, 8172>>, <<8178, 8180>>, <<8182, 8188>>, <<8304, 8305>>, <<8308, 8313>>,
       <<8319, 8329>>, <<8336, 8348>>, <<8450, 8450>>, <<8455, 8455>>, <<8458, 8467>>, <<8469, 8469>>,
       <<8473, 8477>>, <<8484, 8484>>, <<8486, 8486>>, <<8488, 8488>>, <<8490, 8493>>, <<8495, 8505>>,
       <<8508, 8511>>, <<8517, 8521>>, <<8526, 8526>>, <<8528, 8585>>, <<9312, 9371>>, <<9450, 9471>>,
       <<10102, 10131>>, <<11264, 11492>>, <<11499, 11502>>, <<11506, 11507>>, <<11517, 11517>>, <<11520, 11557>>,
       <<11559, 11559>>, <<11565, 11565>>, <<11568, 11623>>, <<11631, 11631>>, <<11648, 11670>>, <<11680, 11686>>,
       <<11688, 11694>>, <<11696, 11702>>, <<11704, 11710>>, <<11712, 11718>>, <<11720, 11726>>, <<11728, 11734>>,
       <<11736, 11742>>, <<11823, 11823>>, <<12293, 12295>>, <<12321, 12329>>, <<12337, 12341>>, <<12344, 12348>>,
       <<12353, 12438>>, <<12445, 12447>>, <<12449, 12538>>, <<12540, 12543>>, <<12549, 12591>>, <<12593, 12686>>,
       <<12690, 12693>>, <<12704, 12735>>, <<12784, 12799>>, <<12832, 12841>>, <<12872, 12879>>, <<12881, 12895>>,
       <<12928, 12937>>, <<12977, 12991>>, <<13312, 19903>>, <<19968, 42124>>, <<42192, 42237>>, <<42240, 42508>>,
       <<42512, 42539>>, <<42560, 42606>>, <<42623, 42653>>, <<42656, 42735>>, <<42775, 42783>>, <<42786, 42888>>,
       <<42891, 42954>>, <<42960, 42961>>, <<42963, 42963>>, <<42965, 42969>>, <<42994, 43009>>, <<43011, 43013>>,
       <<43015, 43018>>, <<43020, 43042>>, <<43056, 43061>>, <<43072, 43123>>, <<43138, 43187>>, <<43216, 43225>>,
       <<43250, 43255>>, <<43259, 43259>>, <<43261, 43262>>, <<43264, 43301>>, <<43312, 43334>>, <<43360, 43388>>,
       <<43396, 43442>>, <<43471, 43481>>, <<43488, 43492>>, <<43494, 43518>>, <<43520, 43560>>, <<43584, 43586>>,
       <<43588, 43595>>, <<43600, 43609>>, <<43616, 43638>>, <<43642, 43642>>, <<43646, 43695>>, <<43697, 43697>>,
       <<43701, 43702>>, <<43705, 43709>>, <<43712, 43712>>, <<43714, 43714>>, <<43739, 43741>>, <<43744, 43754>>,
       <<43762, 43764>>, <<43777, 43782>>, <<43785, 43790>>, <<43793, 43798>>, <<43808, 43814>>, <<43816, 43822>>,
       <<43824, 43866>>, <<43868, 43881>>, <<43888, 44002>>, <<44016, 44025>>, <<44032, 55203>>, <<55216, 55238>>,
       <<55243, 55291>>, <<63744, 64109>>, <<64112, 64217>>, <<64256, 64262>>, <<64275, 64279>>, <<64285, 64285>>,
       <<64287, 64296>>, <<64298, 64310>>, <<64312, 64316>>, <<64318, 64318>>, <<64320, 64321>>, <<64323, 64324>>,
       <<64326, 64433>>, <<64467, 64829>>, <<64848, 64911>>, <<64914, 64967>>, <<65008, 65019>>, <<65136, 65140>>,
       <<65142, 65276>>, <<65296, 65305>>, <<65313, 65338>>, <<65345, 65370>>, <<65382, 65470>>, <<65474, 65479>>,
       <<65482, 65487>>, <<65490, 65495>>, <<65498, 65500>>, <<65536, 65547>>, <<65549, 65574>>, <<65576, 65594>>,
       <<65596, 65597>>, <<65599, 65613>>, <<65616, 65629>>, <<65664, 65786>>, <<65799, 65843>>, <<65856, 65912>>,
       <<65930, 65931>>, <<66176, 66204>>, <<66208, 66256>>, <<66273, 66299>>, <<66304, 66339>>, <<66349, 66378>>,
       <<66384, 66421>>, <<66432, 66461>>, <<66464, 66499>>, <<66504, 66511>>, <<66513, 66517>>, <<66560, 66717>>,
       <<66720, 66729>>, <<66736, 66771>>, <<66776, 66811>>, <<66816, 66855>>, <<66864, 66915>>, <<66928, 66938>>,
       <<66940, 66954>>, <<66956, 66962>>, <<66964, 66965>>, <<66967, 66977>>, <<66979, 66993>>, <<66995, 67001>>,
       <<67003, 67004>>, <<67072, 67382>>, <<67392, 67413>>, <<67424, 67431>>, <<67456, 67461>>, <<67463, 67504>>,
       <<67506, 67514>>, <<67584, 67589>>, <<67592, 67592>>, <<67594, 67637>>, <<67639, 67640>>, <<67644, 67644>>,
       <<67647, 67669>>, <<67672, 67702>>, <<67705, 67742>>, <<67751, 67759>>, <<67808, 67826>>, <<67828, 67829>>,
       <<67835, 67867>>, <<67872, 67897>>, <<67968, 68023>>, <<68028, 68047>>, <<68050, 68096>>, <<68112, 68115>>,
       <<68117, 68119>>, <<68121, 68149>>, <<68160, 68168>>, <<68192, 68222>>, <<68224, 68255>>, <<68288, 68295>>,
       <<68297, 68324>>, <<68331, 68335>>, <<68352, 68405>>, <<68416, 68437>>, <<68440, 68466>>, <<68472, 68497>>,
       <<68521, 68527>>, <<68608, 68680>>, <<68736, 68786>>, <<68800, 68850>>, <<68858, 68899>>, <<68912, 68921>>,
       <<69216, 69246>>, <<69248, 69289>>, <<69296, 69297>>, <<69376, 69415>>, <<69424, 69445>>, <<69457, 69460>>,
       <<69488, 69505>>, <<69552, 69579>>, <<69600, 69622>>, <<69635, 69687>>, <<69714, 69743>>, <<69745, 69746>>,
       <<69749, 69749>>, <<69763, 69807>>, <<69840, 69864>>, <<69872, 69881>>, <<69891, 69926>>, <<69942, 69951>>,
       <<69956, 69956>>, <<69959, 69959>>, <<69968, 70002>>, <<70006, 70006>>, <<70019, 70066>>, <<70081, 70084>>,
       <<70096, 70106>>, <<70108, 70108>>, <<70113, 70132>>, <<70144, 70161>>, <<70163, 70187>>, <<70272, 70278>>,
       <<70280, 70280>>, <<70282, 70285>>, <<70287, 70301>>, <<70303, 70312>>, <<70320, 70366>>, <<70384, 70393>>,
       <<70405, 70412>>, <<70415, 70416>>, <<70419, 70440>>, <<70442, 70448>>, <<70450, 70451>>, <<70453, 70457>>,
       <<70461, 70461>>, <<70480, 70480>>, <<70493, 70497>>, <<70656, 70708>>, <<70727, 70730>>, <<70736, 70745>>,
       <<70751, 70753>>, <<70784, 70831>>, <<70852, 70853>>, <<70855, 70855>>, <<70864, 70873>>, <<71040, 71086>>,
       <<71128, 71131>>, <<71168, 71215>>, <<71236, 71236>>, <<71248, 71257>>, <<71296, 71338>>, <<71352, 71352>>,
       <<71360, 71369>>, <<71424, 71450>>, <<71472, 71483>>, <<71488, 71494>>, <<71680, 71723>>, <<71840, 71922>>,
       <<71935, 71942>>, <<71945, 71945>>, <<71948, 71955>>, <<71957, 71958>>, <<71960, 71983>>, <<71999, 71999>>,
       <<72001, 72001>>, <<72016, 72025>>, <<72096, 72103>>, <<72106, 72144>>, <<72161, 72161>>, <<72163, 72163>>,
       <<72192, 72192>>, <<72203, 72242>>, <<72250, 72250>>, <<72272, 72272>>, <<72284, 72329>>, <<72349, 72349>>,
       <<72368, 72440>>, <<72704, 72712>>, <<72714, 72750>>, <<72768, 72768>>, <<72784, 72812>>, <<72818, 72847>>,
       <<72960, 72966>>, <<72968, 72969>>, <<72971, 73008>>, <<73030, 73030>>, <<73040, 73049>>, <<73056, 73061>>,
       <<73063, 73064>>, <<73066, 73097>>, <<73112, 73112>>, <<73120, 73129>>, <<73440, 73458>>, <<73648, 73648>>,
       <<73664, 73684>>, <<73728, 74649>>, <<74752, 74862>>, <<74880, 75075>>, <<77712, 77808>>, <<77824, 78894>>,
       <<82944, 83526>>, <<92160, 92728>>, <<92736, 92766>>, <<92768, 92777>>, <<92784, 92862>>, <<92864, 92873>>,
       <<92880, 92909>>, <<92928, 92975>>, <<92992, 92995>>, <<93008, 93017>>, <<93019, 93025>>, <<93027, 93047>>,
       <<93053, 93071>>, <<93760, 93846>>, <<93952, 94026>>, <<94032, 94032>>, <<94099, 94111>>, <<94176, 94177>>,
       <<94179, 94179>>, <<94208, 100343>>, <<100352, 101589>>, <<101632, 101640>>, <<110576, 110579>>, <<110581, 110587>>,
       <<110589, 110590>>, <<110592, 110882>>, <<110928, 110930>>, <<110948, 110951>>, <<110960, 111355>>, <<113664, 113770>>,
       <<113776, 113788>>, <<113792, 113800>>, <<113808, 113817>>, <<119520, 119539>>, <<119648, 119672>>, <<119808, 119892>>,
       <<119894, 119964>>, <<119966, 119967>>, <<119970, 119970>>, <<119973, 119974>>, <<119977, 119980>>, <<119982, 119993>>,
       <<119995, 119995>>, <<119997, 120003>>, <<120005, 120069>>, <<120071, 120074>>, <<120077, 120084>>, <<120086, 120092>>,
       <<120094, 120121>>, <<120123, 120126>>, <<120128, 120132>>, <<120134, 120134>>, <<120138, 120144>>, <<120146, 120485>>,
       <<120488, 120512>>, <<120514, 120538>>, <<120540, 120570>>, <<120572, 120596>>, <<120598, 120628>>, <<120630, 120654>>,
       <<120656, 120686>>, <<120688, 120712>>, <<120714, 120744>>, <<120746, 120770>>, <<120772, 120779>>, <<120782, 120831>>,
       <<122624, 122654>>, <<123136, 123180>>, <<123191, 123197>>, <<123200, 123209>>, <<123214, 123214>>, <<123536, 123565>>,
       <<123584, 123627>>, <<123632, 123641>>, <<124896, 124902>>, <<124904, 124907>>, <<124909, 124910>>, <<124912, 124926>>,
       <<124928, 125124>>, <<125127, 125135>>, <<125184, 125251>>, <<125259, 125259>>, <<125264, 125273>>, <<126065, 126123>>,
       <<126125, 126127>>, <<126129, 126132>>, <<126209, 126253>>, <<126255, 126269>>, <<126464, 126467>>, <<126469, 126495>>,
       <<126497, 126498>>, <<126500, 126500>>, <<126503, 126503>>, <<126505, 126514>>, <<126516, 126519>>, <<126521, 126521>>,
       <<126523, 126523>>, <<126530, 126530>>, <<126535, 126535>>, <<126537, 126537>>, <<126539, 126539>>, <<126541, 126543>>,
       <<126545, 126546>>, <<126548, 126548>>, <<126551, 126551>>, <<126553, 126553>>, <<126555, 126555>>, <<126557, 126557>>,
       <<126559, 126559>>, <<126561, 126562>>, <<126564, 126564>>, <<126567, 126570>>, <<126572, 126578>>, <<126580, 126583>>,
       <<126585, 126588>>, <<126590, 126590>>, <<126592, 126601>>, <<126603, 126619>>, <<126625, 126627>>, <<126629, 126633>>,
       <<126635, 126651>>, <<127232, 127244>>, <<130032, 130041>>, <<131072, 173791>>, <<173824, 177976>>, <<177984, 178205>>,
       <<178208, 183969>>, <<183984, 191456>>, <<194560, 195101>>, <<196608, 201546>> >>

IsWordChar(n) ==
    IF n < 128
    THEN \/ n >= 48 /\ n <= 57
         \/ n >= 65 /\ n <= 90
         \/ n = 95
         \/ n >= 97 /\ n <= 122
    ELSE \E k \in 1..Len(WordRanges) : WordRanges[k][1] <= n /\ n <= WordRanges[k][2]

\* \s of a str pattern (Unicode matching): the code points for which
\* str.isspace holds
SpaceChars ==
    (9..13) \cup (28..32) \cup { 133, 160, 5760 } \cup (8192..8202)
        \cup { 8232, 8233, 8239, 8287, 12288 }

\* the end of the greedy run \w* that starts at i: the first position >= i
\* whose character \w rejects (Len(s) + 1 when the run reaches the end)
SkipWord(s, i) ==
    Least({ k \in i..(Len(s) + 1) : k = Len(s) + 1 \/ ~IsWordChar(s[k]) })

\* the end of the greedy run \s* that starts at i
SkipSpace(s, i) ==
    Least({ k \in i..(Len(s) + 1) : k = Len(s) + 1 \/ s[k] \notin SpaceChars })

(***************************************************************************)
(* The three genuine regular expressions of the script.  Each Match...     *)
(* operator gives the position just past the match that starts at i, or 0  *)
(* when the pattern does not match at i; each ...Sub operator is re.sub's  *)
(* left-to-right scan with that pattern.                                   *)
(***************************************************************************)

\* greedy \w+ followed by the literal lit: the word run starting at w is
\* consumed whole and given back one character at a time until lit follows;
\* k is the candidate position of lit.  0 when no split works.
RECURSIVE BacktrackWord(_, _, _, _)
BacktrackWord(s, lit, w, k) ==
    IF k <= w THEN 0
    ELSE IF StartsAt(s, lit, k) THEN k
    ELSE BacktrackWord(s, lit, w, k - 1)

\* r'export const \w+Enum = pgEnum\([^)]+\);'
MatchEnumDecl(s, i) ==
    IF ~StartsAt(s, T("export const "), i) THEN 0
    ELSE LET w == i + Len(T("export const "))
             e == SkipWord(s, w)
             k == BacktrackWord(s, T("Enum = pgEnum("), w, e)
         IN  IF k = 0 THEN 0
             ELSE LET p == k + Len(T("Enum = pgEnum("))
                      q == FindChar(s, T(")"), p)
                  IN  IF q = 0 \/ q = p THEN 0
                      ELSE IF CharAt(s, q + 1) = T(";") THEN q + 2
                      ELSE 0

\* re.sub(r'export const \w+Enum = pgEnum\([^)]+\);', '', s), scanning from i
RECURSIVE EnumDeclSubFrom(_, _)
EnumDeclSubFrom(s, i) ==
    LET k == Find(s, T("export const "), i)
    IN  IF k = 0 THEN From(s, i)
        ELSE LET e == MatchEnumDecl(s, k)
             IN  IF e = 0
                 THEN SubSeq(s, i, k) \o EnumDeclSubFrom(s, k + 1)
                 ELSE SubSeq(s, i, k - 1) \o EnumDeclSubFrom(s, e)

\* r'numeric\([^)]+\)'
MatchNumeric(s, i) ==
    IF ~StartsAt(s, T("numeric("), i) THEN 0
    ELSE LET p == i + Len(T("numeric("))
             q == FindChar(s, T(")"), p)
         IN  IF q = 0 \/ q = p THEN 0 ELSE q + 1

\* re.sub(r'numeric\([^)]+\)', 'real', s), scanning from i
RECURSIVE NumericSubFrom(_, _)
NumericSubFrom(s, i) ==
    LET k == Find(s, T("numeric("), i)
    IN  IF k = 0 THEN From(s, i)
        ELSE LET e == MatchNumeric(s, k)
             IN  IF e = 0
                 THEN SubSeq(s, i, k) \o NumericSubFrom(s, k + 1)
                 ELSE SubSeq(s, i, k - 1) \o T("real") \o NumericSubFrom(s, e)

\* r'timestamp\(("[^"]+"),\s*\{[^}]*\}\)': the record of the match at i,
\* end = 0 when there is none; group1 is the quoted column name
MatchTimestampOpts(s, i) ==
    LET none == [end |-> 0, group1 |-> << >>]
    IN  IF ~StartsAt(s, T("timestamp(\""), i) THEN none
        ELSE LET open == i + Len(T("timestamp("))
                 p == open + 1
                 q == FindChar(s, T("\""), p)
             IN  IF q = 0 \/ q = p THEN none
                 ELSE IF CharAt(s, q + 1) # T(",") THEN none
                 ELSE LET b == SkipSpace(s, q + 2)
                      IN  IF CharAt(s, b) # T("{") THEN none
                          ELSE LET r == FindChar(s, T("}"), b + 1)
                               IN  IF r = 0 THEN none
                                   ELSE IF CharAt(s, r + 1) # T(")") THEN none
                                   ELSE [end |-> r + 2, group1 |-> SubSeq(s, open, q)]

\* re.sub(<the pattern above>, r'integer(\1, { mode: "timestamp" })', s)
RECURSIVE TimestampOptsSubFrom(_, _)
TimestampOptsSubFrom(s, i) ==
    LET k == Find(s, T("timestamp(\""), i)
    IN  IF k = 0 THEN From(s, i)
        ELSE LET m == MatchTimestampOpts(s, k)
             IN  IF m.end = 0
                 THEN SubSeq(s, i, k) \o TimestampOptsSubFrom(s, k + 1)
                 ELSE SubSeq(s, i, k - 1)
                      \o T("integer(") \o m.group1 \o T(", { mode: \"timestamp\" })")
                      \o TimestampOptsSubFrom(s, m.end)


(***************************************************************************)
(* The substitution rules, one operator per statement of the script.       *)
(***************************************************************************)

PgImport ==
    T("import { pgTable, text, varchar, integer, timestamp, pgEnum, numeric, boolean, jsonb } from \"drizzle-orm/pg-core\";")

SqliteImport ==
    T("import { sqliteTable, text, integer, real } from \"drizzle-orm/sqlite-core\";")

SqlImport == T("import { sql } from \"drizzle-orm\";")

\* a header without the blank line
NanoidHeaderNoBlank ==
    T("import { nanoid } from \"nanoid\";\nconst genId = () => nanoid();\n")

NanoidHeader ==
    T("import { nanoid } from \"nanoid\";\nconst genId = () => nanoid();\n\n")

\* the pattern taken with the line break that follows the import
ReplaceImportsWithBreak(c) == ReSubLiteral(c, PgImport \o T("\n"), SqliteImport)

ReplaceImports(c) == ReSubLiteral(c, PgImport, SqliteImport)

RemoveSqlImport(c) == ReSubLiteral(c, SqlImport, << >>)

AddNanoid(c) == NanoidHeader \o c

RemoveEnumDecls(c) == EnumDeclSubFrom(c, 1)

\* str.replace with count=1: only the first occurrence
ReplacePgTableFirstOnly(c) ==
    LET k == Find(c, T("pgTable"), 1)
    IN  IF k = 0 THEN c
        ELSE SubSeq(c, 1, k - 1) \o T("sqliteTable") \o From(c, k + Len(T("pgTable")))

ReplacePgTable(c) == StrReplace(c, T("pgTable"), T("sqliteTable"))

ReplaceVarchar(c) == StrReplace(c, T("varchar"), T("text"))

ReplaceNumeric(c) == NumericSubFrom(c, 1)

ReplaceTimestampOpts(c) == TimestampOptsSubFrom(c, 1)

ReplaceTimestamp(c) == StrReplace(c, T("timestamp("), T("integer("))

ReplaceBoolean(c) == StrReplace(c, T("boolean("), T("integer("))

ReplaceJsonb(c) == StrReplace(c, T("jsonb("), T("text("))

RemoveArray(c) == ReSubLiteral(c, T(".array()"), << >>)

ReplaceUuidDefault(c) ==
    ReSubLiteral(c, T(".default(sql") \o Backquote \o T("gen_random_uuid()") \o Backquote \o T(")"),
                    T(".$defaultFn(() => genId())"))

\* the list with one more pair
enum_types_twelve ==
    << <<T("statusEnum"), T("status")>>,
       <<T("warehouseCategoryEnum"), T("category")>>,
       <<T("warehouseStatusEnum"), T("status")>>,
       <<T("transactionTypeEnum"), T("type")>>,
       <<T("financialTypeEnum"), T("type")>>,
       <<T("installationStatusEnum"), T("status")>>,
       <<T("priorityEnum"), T("priority")>>,
       <<T("documentTypeEnum"), T("type")>>,
       <<T("messageTypeEnum"), T("message_type")>>,
       <<T("dealDocumentTypeEnum"), T("document_type")>>,
       <<T("customFieldTypeEnum"), T("field_type")>>,
       <<T("roleEnum"), T("role")>> >>

enum_types ==
    << <<T("statusEnum"), T("status")>>,
       <<T("warehouseCategoryEnum"), T("category")>>,
       <<T("warehouseStatusEnum"), T("status")>>,
       <<T("transactionTypeEnum"), T("type")>>,
       <<T("financialTypeEnum"), T("type")>>,
       <<T("installationStatusEnum"), T("status")>>,
       <<T("priorityEnum"), T("priority")>>,
       <<T("documentTypeEnum"), T("type")>>,
       <<T("messageTypeEnum"), T("message_type")>>,
       <<T("dealDocumentTypeEnum"), T("document_type")>>,
       <<T("customFieldTypeEnum"), T("field_type")>> >>

\* one iteration of the enum loop: rf'{enum_name}\("{col_name}"\)' -> f'text("{col_name}")'
ReplaceEnumColumn(c, enum_name, col_name) ==
    ReSubLiteral(c, enum_name \o T("(\"") \o col_name \o T("\")"),
                    T("text(\"") \o col_name \o T("\")"))

FixDefaultTrue(c) == StrReplace(c, T(".default(true)"), T(".default(1)"))

FixDefaultFalse(c) == StrReplace(c, T(".default(false)"), T(".default(0)"))

ReplaceDefaultNow(c) == StrReplace(c, T(".defaultNow()"), T(".$defaultFn(() => new Date())"))

boolean_columns ==
    << T("can_create_deals"), T("can_edit_deals"), T("can_delete_deals"),
       T("is_signed"), T("is_active") >>

\* the pattern cut before the closing parenthesis, so that a call that already
\* has an options object matches too
AddBooleanModeOpenCall(c, col) ==
    ReSubLiteral(c, T("integer(\"") \o col \o T("\""),
                    T("integer(\"") \o col \o T("\", { mode: \"boolean\" }"))

\* one iteration of the boolean loop: rf'integer\("{col}"\)' -> f'integer("{col}", {{ mode: "boolean" }})'
AddBooleanMode(c, col) ==
    ReSubLiteral(c, T("integer(\"") \o col \o T("\")"),
                    T("integer(\"") \o col \o T("\", { mode: \"boolean\" })"))

CompletionMessage == "Conversion complete!"

(***************************************************************************)
(* Control flow: the statements of the script in the order they are        *)
(* written.  The two `with` blocks each contribute open / body / close.    *)
(***************************************************************************)

\* the general timestamp( rule written before the two-argument rule
ProgramGeneralTimestampFirst ==
    << "open_source", "read_source", "close_source",
       "replace_imports", "remove_sql_import", "add_nanoid",
       "remove_enum_decls", "replace_pgtable", "replace_varchar",
       "replace_numeric", "replace_timestamp", "replace_timestamp_opts",
       "replace_boolean", "replace_jsonb", "remove_array",
       "replace_uuid_default", "enum_loop", "fix_default_true",
       "fix_default_false", "replace_default_now", "boolean_loop",
       "open_dest", "write_dest", "close_dest", "print", "done" >>

Program ==
    << "open_source", "read_source", "close_source",
       "replace_imports", "remove_sql_import", "add_nanoid",
       "remove_enum_decls", "replace_pgtable", "replace_varchar",
       "replace_numeric", "replace_timestamp_opts", "replace_timestamp",
       "replace_boolean", "replace_jsonb", "remove_array",
       "replace_uuid_default", "enum_loop", "fix_default_true",
       "fix_default_false", "replace_default_now", "boolean_loop",
       "open_dest", "write_dest", "close_dest", "print", "done" >>

\* position of a statement label in the script
IndexOf(label) == CHOOSE k \in 1..Len(Program) : Program[k] = label

\* the statement that follows label
After(label) == Program[IndexOf(label) + 1]


(***************************************************************************)
(* State.                                                                  *)
(***************************************************************************)
VARIABLES
    pc,          \* the statement about to run, "done" or "failed"
    source,      \* shared/schema.pg.backup.ts: the text its bytes decode to
    content,     \* the in-memory buffer
    srcHandle,   \* "unopened", "open" or "closed"
    dstHandle,   \* "unopened", "open" or "closed"
    dstFile,     \* shared/schema.ts: [exists, bytes]
    dstBuffer,   \* bytes f.write has taken that are not in the file yet
    destBefore,  \* shared/schema.ts as it was when the run started
    stdout,      \* lines printed so far
    error,       \* the unhandled exception, "none" while there is none
    enum_i,      \* iterations of the enum_types loop completed
    bool_i       \* iterations of the boolean_columns loop completed

vars == << pc, source, content, srcHandle, dstHandle, dstFile, dstBuffer,
           destBefore, stdout, error, enum_i, bool_i >>

NoFile == [exists |-> FALSE, bytes |-> << >>]

\* a file holding the byte string bytes
FileWith(bytes) == [exists |-> TRUE, bytes |-> bytes]

\* the state when the interpreter starts the script, for a source file
\* holding one of texts and a destination in one of the states dests
InitWith(texts, dests) ==
    /\ pc = "open_source"
    /\ source \in texts
    /\ content = << >>
    /\ srcHandle = "unopened"
    /\ dstHandle = "unopened"
    /\ destBefore \in dests
    /\ dstFile = destBefore
    /\ dstBuffer = << >>
    /\ stdout = << >>
    /\ error = "none"
    /\ enum_i = 0
    /\ bool_i = 0

\* an unhandled exception ends the process
Raise(exc) ==
    /\ pc' = "failed"
    /\ error' = exc

\* a rule statement: content = rule(content)
Rule(label, new) ==
    /\ pc = label
    /\ content' = new
    /\ pc' = After(label)
    /\ UNCHANGED << source, srcHandle, dstHandle, dstFile, dstBuffer, destBefore,
                    stdout, error, enum_i, bool_i >>

(***************************************************************************)
(* Reading the source: with open(..., 'r', encoding='utf-8') as f:         *)
(*                         content = f.read()                              *)
(***************************************************************************)

\* open() either yields a handle or raises (missing file, permission denied)
OpenSource ==
    /\ pc = "open_source"
    /\ \/ /\ srcHandle' = "open"
          /\ pc' = After("open_source")
          /\ UNCHANGED error
       \/ /\ Raise("source_open")
          /\ UNCHANGED srcHandle
    /\ UNCHANGED << source, content, dstHandle, dstFile, dstBuffer, destBefore, stdout,
                    enum_i, bool_i >>

\* the file is opened in text mode with the default newline=None, so read()
\* hands every line end of the file over as "\n": "\r\n" first, then a "\r"
\* on its own
UniversalNewlines(txt) == StrReplace(StrReplace(txt, T("\r\n"), T("\n")), T("\r"), T("\n"))

\* f.read() either binds content to the decoded, newline-translated text or
\* raises (I/O error, invalid UTF-8); the exception is pending while the with
\* block is left
ReadSource ==
    /\ pc = "read_source"
    /\ \/ /\ content' = UniversalNewlines(source)
          /\ UNCHANGED error
       \/ /\ error' = "source_read"
          /\ UNCHANGED content
    /\ pc' = After("read_source")
    /\ UNCHANGED << source, srcHandle, dstHandle, dstFile, dstBuffer, destBefore, stdout,
                    enum_i, bool_i >>

\* a read error swallowed instead of propagated
CloseSourceSwallow ==
    /\ pc = "close_source"
    /\ srcHandle' = "closed"
    /\ pc' = After("close_source")
    /\ UNCHANGED << source, content, dstHandle, dstFile, dstBuffer, destBefore, stdout,
                    error, enum_i, bool_i >>

\* f.close() written after the read instead of a with block: skipped when
\* the read raises
CloseSourceNoWith ==
    /\ pc = "close_source"
    /\ srcHandle' = IF error = "none" THEN "closed" ELSE srcHandle
    /\ pc' = IF error = "none" THEN After("close_source") ELSE "failed"
    /\ UNCHANGED << source, content, dstHandle, dstFile, dstBuffer, destBefore, stdout,
                    error, enum_i, bool_i >>

\* leaving the with block closes the handle on both paths, then a pending
\* exception propagates
CloseSource ==
    /\ pc = "close_source"
    /\ srcHandle' = "closed"
    /\ pc' = IF error = "none" THEN After("close_source") ELSE "failed"
    /\ UNCHANGED << source, content, dstHandle, dstFile, dstBuffer, destBefore, stdout,
                    error, enum_i, bool_i >>

(***************************************************************************)
(* The rule statements.                                                    *)
(***************************************************************************)

DoReplaceImports == Rule("replace_imports", ReplaceImports(content))

DoRemoveSqlImport == Rule("remove_sql_import", RemoveSqlImport(content))

DoAddNanoid == Rule("add_nanoid", AddNanoid(content))

DoRemoveEnumDecls == Rule("remove_enum_decls", RemoveEnumDecls(content))

DoReplacePgTable == Rule("replace_pgtable", ReplacePgTable(content))

DoReplaceVarchar == Rule("replace_varchar", ReplaceVarchar(content))

DoReplaceNumeric == Rule("replace_numeric", ReplaceNumeric(content))

DoReplaceTimestampOpts == Rule("replace_timestamp_opts", ReplaceTimestampOpts(content))

DoReplaceTimestamp == Rule("replace_timestamp", ReplaceTimestamp(content))

DoReplaceBoolean == Rule("replace_boolean", ReplaceBoolean(content))

DoReplaceJsonb == Rule("replace_jsonb", ReplaceJsonb(content))

DoRemoveArray == Rule("remove_array", RemoveArray(content))

DoReplaceUuidDefault == Rule("replace_uuid_default", ReplaceUuidDefault(content))

\* for enum_name, col_name in enum_types: one iteration per step
EnumLoop ==
    /\ pc = "enum_loop"
    /\ enum_i < Len(enum_types)
    /\ enum_i' = enum_i + 1
    /\ content' = ReplaceEnumColumn(content, enum_types[enum_i'][1], enum_types[enum_i'][2])
    /\ pc' = IF enum_i' = Len(enum_types) THEN After("enum_loop") ELSE pc
    /\ UNCHANGED << source, srcHandle, dstHandle, dstFile, dstBuffer, destBefore,
                    stdout, error, bool_i >>

DoFixDefaultTrue == Rule("fix_default_true", FixDefaultTrue(content))

DoFixDefaultFalse == Rule("fix_default_false", FixDefaultFalse(content))

DoReplaceDefaultNow == Rule("replace_default_now", ReplaceDefaultNow(content))

\* for col in boolean_columns: one iteration per step
BooleanLoop ==
    /\ pc = "boolean_loop"
    /\ bool_i < Len(boolean_columns)
    /\ bool_i' = bool_i + 1
    /\ content' = AddBooleanMode(content, boolean_columns[bool_i'])
    /\ pc' = IF bool_i' = Len(boolean_columns) THEN After("boolean_loop") ELSE pc
    /\ UNCHANGED << source, srcHandle, dstHandle, dstFile, dstBuffer, destBefore,
                    stdout, error, enum_i >>

(***************************************************************************)
(* Writing the destination: with open(..., 'w', encoding='utf-8') as f:    *)
(*                              f.write(content)                           *)
(***************************************************************************)

\* os.linesep of the POSIX host the script runs on
linesep == T("\n")

\* the file is opened in text mode with the default newline=None, so write()
\* puts os.linesep in the file for every "\n" of the buffer
WrittenText(txt) == StrReplace(txt, T("\n"), linesep)

\* encoding='utf-8': the bytes of the code point n (one to four).  The buffer
\* is text decoded from UTF-8 with ASCII text put in by the rules, so it
\* holds no surrogate code point, the one kind encode() rejects.
Utf8Char(n) ==
    IF n < 128 THEN << n >>
    ELSE IF n < 2048 THEN << 192 + (n \div 64), 128 + (n % 64) >>
    ELSE IF n < 65536
    THEN << 224 + (n \div 4096), 128 + ((n \div 64) % 64), 128 + (n % 64) >>
    ELSE << 240 + (n \div 262144), 128 + ((n \div 4096) % 64),
            128 + ((n \div 64) % 64), 128 + (n % 64) >>

\* txt[lo..hi].encode('utf-8'): a stretch of ASCII is its own encoding, any
\* other stretch is encoded half by half
RECURSIVE Utf8EncodeRange(_, _, _)
Utf8EncodeRange(txt, lo, hi) ==
    IF \A k \in lo..hi : txt[k] < 128 THEN SubSeq(txt, lo, hi)
    ELSE IF lo = hi THEN Utf8Char(txt[lo])
    ELSE LET mid == (lo + hi) \div 2
         IN  Utf8EncodeRange(txt, lo, mid) \o Utf8EncodeRange(txt, mid + 1, hi)

Utf8Encode(txt) == Utf8EncodeRange(txt, 1, Len(txt))

\* the bytes a complete f.write(content) and close put in the file
FileBytes(txt) == Utf8Encode(WrittenText(txt))

\* what a failed flush may add to the file of the bytes it was to write:
\* whatever the operating system accepted before the error, a prefix of any
\* length counted in bytes, which may end inside the bytes of a character
PartialWrites(bytes) == { SubSeq(bytes, 1, n) : n \in 0..Len(bytes) }

\* the bytes io.TextIOWrapper collects before it passes them on: a write
\* that brings the pending bytes to this count or above is passed on at once,
\* a smaller one stays pending until the file is flushed or closed
chunk_size == 8192

\* the buffer of the io.BufferedWriter under the text layer, which open()
\* sizes to the block size the file system reports for shared/schema.ts
buffer_size == 4096

\* open(..., 'w') creates or truncates the file, or raises and touches nothing
OpenDest ==
    /\ pc = "open_dest"
    /\ \/ /\ dstHandle' = "open"
          /\ dstFile' = FileWith(<< >>)
          /\ dstBuffer' = << >>
          /\ pc' = After("open_dest")
          /\ UNCHANGED error
       \/ /\ Raise("dest_open")
          /\ UNCHANGED << dstHandle, dstFile, dstBuffer >>
    /\ UNCHANGED << source, content, srcHandle, destBefore, stdout,
                    enum_i, bool_i >>

\* f.write(content) encodes the buffer.  Fewer than chunk_size bytes stay
\* pending in the text layer: the file is still empty and nothing can fail.
\* chunk_size bytes or more go to the buffered writer, which is too small
\* for them and writes to the file until what is left fits its buffer: the
\* operating system takes the first n bytes; when all is taken, or the rest
\* fits the buffer, f.write returns and the rest waits for close; when more
\* than buffer_size bytes are left the next write is refused (disk full,
\* file size limit, I/O error), f.write raises and the rest is dropped.  The
\* exception is pending while the with block is left
WriteDest ==
    /\ pc = "write_dest"
    /\ LET data == FileBytes(content)
       IN  IF Len(data) < chunk_size
           THEN /\ dstBuffer' = data
                /\ UNCHANGED << dstFile, error >>
           ELSE \E n \in 0..Len(data) :
                    /\ dstFile' = FileWith(SubSeq(data, 1, n))
                    /\ IF Len(data) - n <= buffer_size
                       THEN /\ dstBuffer' = SubSeq(data, n + 1, Len(data))
                            /\ UNCHANGED error
                       ELSE /\ dstBuffer' = << >>
                            /\ error' = "dest_write"
    /\ pc' = After("write_dest")
    /\ UNCHANGED << source, content, srcHandle, dstHandle, destBefore, stdout,
                    enum_i, bool_i >>

\* a close that drops the bytes still buffered
CloseDestNoFlush ==
    /\ pc = "close_dest"
    /\ dstHandle' = "closed"
    /\ dstBuffer' = << >>
    /\ \/ /\ error = "none"
          /\ pc' = After("close_dest")
          /\ UNCHANGED << error, dstFile >>
       \/ /\ error = "none"
          /\ \E part \in PartialWrites(dstBuffer) :
                 dstFile' = FileWith(dstFile.bytes \o part)
          /\ Raise("dest_close")
       \/ /\ error # "none"
          /\ pc' = "failed"
          /\ UNCHANGED << error, dstFile >>
    /\ UNCHANGED << source, content, srcHandle, destBefore, stdout,
                    enum_i, bool_i >>

\* leaving the with block closes the handle on every path.  close() flushes
\* first: the buffered bytes are appended to the file, or the flush (or the
\* close of the descriptor after it) raises and the file keeps what the
\* operating system took before the error.  With an exception of f.write
\* pending nothing is buffered and the file stays as f.write left it
CloseDest ==
    /\ pc = "close_dest"
    /\ dstHandle' = "closed"
    /\ dstBuffer' = << >>
    /\ \/ /\ error = "none"
          /\ dstFile' = FileWith(dstFile.bytes \o dstBuffer)
          /\ pc' = After("close_dest")
          /\ UNCHANGED error
       \/ /\ error = "none"
          /\ \E part \in PartialWrites(dstBuffer) :
                 dstFile' = FileWith(dstFile.bytes \o part)
          /\ Raise("dest_close")
       \/ /\ error # "none"
          /\ pc' = "failed"
          /\ UNCHANGED << error, dstFile >>
    /\ UNCHANGED << source, content, srcHandle, destBefore, stdout,
                    enum_i, bool_i >>

\* print("Conversion complete!"): the line reaches standard output and the
\* process exits with status 0; or the write raises OSError in print (an
\* unbuffered stream that cannot take the line) and the process exits with
\* status 1; or the line is buffered and lost when the interpreter flushes
\* standard output at exit, which ends the process with status 120; or
\* standard output is closed (sys.stdout is None) and print does nothing
PrintComplete ==
    /\ pc = "print"
    /\ \/ /\ stdout' = Append(stdout, CompletionMessage)
          /\ pc' = After("print")
          /\ UNCHANGED error
       \/ /\ Raise("print")
          /\ UNCHANGED stdout
       \/ /\ Raise("stdout_flush")
          /\ UNCHANGED stdout
       \/ /\ pc' = After("print")
          /\ UNCHANGED << stdout, error >>
    /\ UNCHANGED << source, content, srcHandle, dstHandle, dstFile, dstBuffer, destBefore,
                    enum_i, bool_i >>

Next ==
    \/ OpenSource
    \/ ReadSource
    \/ CloseSource
    \/ DoReplaceImports
    \/ DoRemoveSqlImport
    \/ DoAddNanoid
    \/ DoRemoveEnumDecls
    \/ DoReplacePgTable
    \/ DoReplaceVarchar
    \/ DoReplaceNumeric
    \/ DoReplaceTimestampOpts
    \/ DoReplaceTimestamp
    \/ DoReplaceBoolean
    \/ DoReplaceJsonb
    \/ DoRemoveArray
    \/ DoReplaceUuidDefault
    \/ EnumLoop
    \/ DoFixDefaultTrue
    \/ DoFixDefaultFalse
    \/ DoReplaceDefaultNow
    \/ BooleanLoop
    \/ OpenDest
    \/ WriteDest
    \/ CloseDest
    \/ PrintComplete

(***************************************************************************)
(* Source files.  A source text is the concatenation of at most MaxFrags   *)
(* fragments of schema text; each specification draws the fragments from   *)
(* the family that exercises one group of rules.                           *)
(***************************************************************************)

MaxFrags == 2

RECURSIVE Join(_)
Join(fs) == IF fs = << >> THEN << >> ELSE Head(fs) \o Join(Tail(fs))

\* every text made of 0..MaxFrags fragments
Texts(frags) == { Join(fs) : fs \in UNION { [1..n -> frags] : n \in 0..MaxFrags } }

\* timestamp(...) calls with and without an options object
TimestampFrags ==
    { T("  createdAt: timestamp(\"created_at\", { withTimezone: true }).defaultNow().notNull(),\n"),
      T("timestamp(\"a\", {})"),
      T("timestamp(\"due date\", {\r\n  mode: \"date\"\r\n})"),
      T("timestamp(\"is_active\", { withTimezone: true })"),
      T("timestamp(\"varchar_col\", { withTimezone: true })"),
      T("timestamp(\"a\",") \o << 11 >> \o T("{ withTimezone: true })"),
      T("  updatedAt: timestamp(\"updated_at\"),\n"),
      T("timestamp(\"a\")"),
      T("timestamp(\"is_active\")"),
      T("timestamp(\"is_signed\").notNull()"),
      T("timestamp(\"varchar_col\")"),
      T(",\n") }

\* enum column calls, listed and unlisted
EnumFrags ==
    { T("export const ") \o << 233 >> \o T("tatEnum = pgEnum(\"etat\", [\"a\"]);\n"),
      T("statusEnum(\"status\")"),
      T("statusEnum(\"other_column\")"),
      T("substatusEnum(\"status\")"),
      T("roleEnum(\"role\")"),
      T("priorityEnum(\"status\")"),
      T("warehouseStatusEnum(\"status\")"),
      T("dealDocumentTypeEnum(\"document_type\")"),
      T("documentTypeEnum(\"type\")"),
      T("customFieldTypeEnum(\"field_type\")"),
      T("export const statusEnum = pgEnum(\"status\", [\"a\", \"b\"]);\n"),
      T(",\n") }

\* import lines and texts that could reach into the prepended header
ImportFrags ==
    { PgImport \o T("\n"),
      SqlImport \o T("\n"),
      T("import { pgTable, varchar } from \"drizzle-orm/pg-core\";\n"),
      T("import { relations } from \"drizzle-orm\";\n"),
      T("// ") \o PgImport \o T(" (old)\r\n"),
      T("export const users = pgTable(\"users\", {\n"),
      T("Enum = pgEnum(\"x\");\n"),
      T(".array()"),
      T("(\"status\")"),
      T("nanoid();\n") }

\* occurrences of pgTable, whole and in pieces
PgTableFrags ==
    { T("export const deals = pgTable(\"deals\", {\n"),
      T("// pgTable in a comment\n"),
      T("pgTablepgTable"),
      T("pg"),
      T("Table"),
      T("pg.array()Table"),
      T(".array()"),
      T("  tags: text(\"tags\").array(),\n"),
      T("  price: numeric(\"price\", 10, 2),\n"),
      T("varchar(\"pgTable\")") }

\* boolean(...) and integer(...) calls on listed and unlisted columns
BooleanFrags ==
    { T("boolean(\"can_create_deals\")"),
      T("boolean(\"can_edit_deals\")"),
      T("boolean(\"can_delete_deals\")"),
      T("  isSigned: boolean(\"is_signed\").default(false).notNull(),\n"),
      T("boolean(\"is_active\")"),
      T("integer(\"can_create_deals\")"),
      T("integer(\"is_signed\")"),
      T("integer(\"is_active\")"),
      T("integer(\"is_active\", { mode: \"something_else\" })"),
      T("boolean(\"archived\").default(true)"),
      T("boolean(\"varchar_flag\")"),
      T("integer(\"archived\")"),
      T(",\n") }

\* a small schema, for the runs that are about files and handles
SchemaFrags ==
    { PgImport \o T("\n") \o SqlImport \o T("\n"),
      T("export const statusEnum = pgEnum(\"status\", [\"new\", \"won\"]);\n"),
      T("// notes, d") \o << 233 >> \o T("j") \o << 224 >> \o T(" vu\r\nexport const notes = pgTable(\"notes\", {\r\n  done: boolean(\"is_signed\"),\r  at: timestamp(\"at\",\r\n    { withTimezone: true }),\r\n});\r\n"),
      T("export const deals = pgTable(\"deals\", {\n  id: varchar(\"id\").primaryKey().default(sql") \o Backquote \o T("gen_random_uuid()") \o Backquote \o T("),\n  status: statusEnum(\"status\"),\n  is_active: boolean(\"is_active\").default(true),\n  created_at: timestamp(\"created_at\", { withTimezone: true }).defaultNow(),\n  tags: jsonb(\"tags\").array(),\n  amount: numeric(\"amount\", 10, 2),\n});\n") }

\* the destination before the run: absent, or left by an earlier run
OldDest == FileWith(T("// previous schema.ts\n"))

Init == InitWith(Texts(SchemaFrags), { NoFile, OldDest })

Spec == Init /\ [][Next]_vars

InitTimestamp == InitWith(Texts(TimestampFrags), { NoFile })

SpecTimestamp == InitTimestamp /\ [][Next]_vars

InitEnum == InitWith(Texts(EnumFrags), { NoFile })

SpecEnum == InitEnum /\ [][Next]_vars

InitImport == InitWith(Texts(ImportFrags), { NoFile })

SpecImport == InitImport /\ [][Next]_vars

InitPgTable == InitWith(Texts(PgTableFrags), { NoFile })

SpecPgTable == InitPgTable /\ [][Next]_vars

InitBoolean == InitWith(Texts(BooleanFrags), { NoFile })

SpecBoolean == InitBoolean /\ [][Next]_vars


(***************************************************************************)
(* Vocabulary of the properties.                                           *)
(***************************************************************************)

\* the statement about to run comes after label in the script
Past(label) ==
    \E k \in 1..Len(Program) : Program[k] = pc /\ k > IndexOf(label)

SourceFaults == { "source_open", "source_read" }

DestFaults == { "dest_open", "dest_write", "dest_close" }

\* the completion message could not be delivered
PrintFaults == { "print", "stdout_flush" }

Terminated == pc \in { "done", "failed" }

\* what the rule statement at label makes of a buffer c; ei and bi are the
\* numbers of the loop iterations when label is a loop
StatementResult(label, c, ei, bi) ==
    CASE label = "replace_imports" -> ReplaceImports(c)
      [] label = "remove_sql_import" -> RemoveSqlImport(c)
      [] label = "add_nanoid" -> AddNanoid(c)
      [] label = "remove_enum_decls" -> RemoveEnumDecls(c)
      [] label = "replace_pgtable" -> ReplacePgTable(c)
      [] label = "replace_varchar" -> ReplaceVarchar(c)
      [] label = "replace_numeric" -> ReplaceNumeric(c)
      [] label = "replace_timestamp_opts" -> ReplaceTimestampOpts(c)
      [] label = "replace_timestamp" -> ReplaceTimestamp(c)
      [] label = "replace_boolean" -> ReplaceBoolean(c)
      [] label = "replace_jsonb" -> ReplaceJsonb(c)
      [] label = "remove_array" -> RemoveArray(c)
      [] label = "replace_uuid_default" -> ReplaceUuidDefault(c)
      [] label = "enum_loop" -> ReplaceEnumColumn(c, enum_types[ei][1], enum_types[ei][2])
      [] label = "fix_default_true" -> FixDefaultTrue(c)
      [] label = "fix_default_false" -> FixDefaultFalse(c)
      [] label = "replace_default_now" -> ReplaceDefaultNow(c)
      [] label = "boolean_loop" -> AddBooleanMode(c, boolean_columns[bi])
      [] OTHER -> c

(***************************************************************************)
(* Files and handles.                                                      *)
(***************************************************************************)

\* C7: when opening or reading the source fails, the run aborts before any
\* rule is applied: the buffer is never bound, the destination is never
\* opened and keeps its prior state (contents or absence), nothing is
\* printed, and the only statement still to run is leaving the with block.
C7_SourceFaultAborts ==
    error \in SourceFaults =>
        /\ pc \in { "close_source", "failed" }
        /\ content = << >>
        /\ dstHandle = "unopened"
        /\ dstFile = destBefore
        /\ stdout = << >>
        /\ enum_i = 0
        /\ bool_i = 0

C7_Witness ==
    /\ pc = "failed"
    /\ error = "source_read"
    /\ destBefore = OldDest
    /\ dstFile = OldDest
    /\ stdout = << >>

\* C8: when the process has terminated, on every exit path, no handle is
\* still open; the source handle is closed even when the read failed, and a
\* handle is "unopened" only when its open() itself failed or was never
\* reached.
C8_HandlesClosed ==
    Terminated =>
        /\ srcHandle # "open"
        /\ dstHandle # "open"
        /\ (error = "source_read" => srcHandle = "closed")
        /\ (error = "source_open" <=> srcHandle = "unopened")
        /\ (error \in { "dest_write", "dest_close", "none" } \cup PrintFaults =>
                dstHandle = "closed")

C8_Witness ==
    /\ pc = "failed"
    /\ error = "source_read"
    /\ srcHandle = "closed"

\* C9: the steps occur in the order read+close source -> rules -> open and
\* write destination -> close destination -> print.  The rules run only with
\* the source closed and the destination not yet opened; the destination is
\* opened, and truncated, only after every rule has run; f.write hands the
\* encoded buffer to the file object, which may hold it back (a buffer below
\* chunk_size leaves the file empty until the close); a close that succeeds
\* leaves the file holding exactly the encoded final buffer; the message is
\* printed at most once and only after such a close; a destination fault
\* never prints the message, and a failed write or close leaves the file
\* holding a prefix of those bytes.
C9_StepOrder ==
    /\ (Past("close_source") /\ ~Past("boolean_loop")) =>
           (srcHandle = "closed" /\ dstHandle = "unopened" /\ dstFile = destBefore)
    /\ srcHandle = "open" => (dstHandle = "unopened" /\ dstFile = destBefore)
    /\ dstHandle # "unopened" =>
           /\ srcHandle = "closed"
           /\ enum_i = Len(enum_types)
           /\ bool_i = Len(boolean_columns)
           /\ dstFile.exists
    /\ pc = "write_dest" =>
           (dstHandle = "open" /\ dstFile = FileWith(<< >>) /\ dstBuffer = << >>)
    /\ (pc = "close_dest" /\ error = "none") =>
           /\ dstHandle = "open"
           /\ dstFile.bytes \o dstBuffer = FileBytes(content)
           /\ Len(FileBytes(content)) < chunk_size => dstFile = FileWith(<< >>)
           /\ Len(dstBuffer) < chunk_size
    /\ dstHandle # "open" => dstBuffer = << >>
    /\ error \in { "dest_write", "dest_close" } =>
           /\ dstFile.exists
           /\ Len(dstFile.bytes) <= Len(FileBytes(content))
           /\ dstFile.bytes = SubSeq(FileBytes(content), 1, Len(dstFile.bytes))
    /\ error = "dest_open" => dstFile = destBefore
    /\ pc = "print" => (dstHandle = "closed" /\ dstFile = FileWith(FileBytes(content)) /\ error = "none")
    /\ stdout # << >> =>
           /\ stdout = << "Conversion complete!" >>
           /\ pc = "done"
           /\ error = "none"
           /\ dstHandle = "closed"
           /\ dstFile = FileWith(FileBytes(content))
    /\ error \in DestFaults => stdout = << >>
    /\ (pc = "done" \/ error \in PrintFaults) =>
           (dstHandle = "closed" /\ dstFile = FileWith(FileBytes(content)))
    /\ error \in PrintFaults => (pc = "failed" /\ stdout = << >>)

C9_Witness ==
    /\ pc = "done"
    /\ destBefore = OldDest
    /\ stdout = << "Conversion complete!" >>
    /\ dstFile = FileWith(FileBytes(content))
    /\ Contains(source, T("timestamp("))
    /\ content # source


(***************************************************************************)
(* Column calls.                                                           *)
(***************************************************************************)

Quoted(s) == T("\"") \o s \o T("\"")

\* the prepended header, spelled out
HeaderText ==
    T("import { nanoid } from \"nanoid\";") \o T("\n") \o T("const genId = () => nanoid();") \o T("\n") \o T("\n")

\* timestamp("s",<sep>{o}) for a run sep of white space
TsCallSep(s, sep, o) == T("timestamp(") \o Quoted(s) \o T(",") \o sep \o T("{") \o o \o T("})")

TsCall(s, o) == TsCallSep(s, T(" "), o)

TsPlain(s) == T("timestamp(") \o Quoted(s) \o T(")")

BoolCall(s) == T("boolean(") \o Quoted(s) \o T(")")

IntPlain(s) == T("integer(") \o Quoted(s) \o T(")")

IntWithSep(s, sep, o) == T("integer(") \o Quoted(s) \o T(",") \o sep \o T("{") \o o \o T("})")

IntWith(s, o) == IntWithSep(s, T(" "), o)

IntTimestamp(s) == T("integer(") \o Quoted(s) \o T(", { mode: \"timestamp\" })")

IntBoolean(s) == T("integer(") \o Quoted(s) \o T(", { mode: \"boolean\" })")

FiveBooleanNames ==
    { T("can_create_deals"), T("can_edit_deals"), T("can_delete_deals"), T("is_signed"), T("is_active") }

\* column names and option texts of the timestamp calls considered
TsNames ==
    { T("created_at"), T("updated_at"), T("a"), T("due date"), T("is_active"), T("is_signed"),
      T("varchar_col") }

\* options texts, one of them with the line ends of a CRLF file
TsOpts == { T(" withTimezone: true "), << >>, T("\r\n  mode: \"date\"\r\n") }

\* white space between the comma and the options object: a space, a
\* vertical tab
TsSeps == { T(" "), << 11 >> }

\* a name as rules 5 and 6 leave it inside a string literal
Renamed(s) == StrReplaceFrom(StrReplaceFrom(s, T("pgTable"), T("sqliteTable"), 1), T("varchar"), T("text"), 1)

\* the outcome the timestamp rules are to have for the calls on column s
\* when the column is named n in the output
TimestampOutcome(s, n) ==
    /\ \A o \in TsOpts, sep \in TsSeps :
          /\ Contains(source, TsCallSep(s, sep, o)) =>
                /\ Contains(content, IntTimestamp(n))
                /\ ~Contains(content, T("timestamp(") \o Quoted(n))
                /\ ~Contains(content, IntWithSep(n, sep, UniversalNewlines(o)))
          /\ source = TsCallSep(s, sep, o) => content = HeaderText \o IntTimestamp(n)
    /\ Contains(source, TsPlain(s)) =>
          /\ ~Contains(content, T("timestamp(") \o Quoted(n))
          /\ IF n \in FiveBooleanNames
             THEN Contains(content, IntBoolean(n))
             ELSE Contains(content, IntPlain(n))
    /\ source = TsPlain(s) =>
          content = HeaderText \o (IF n \in FiveBooleanNames THEN IntBoolean(n) ELSE IntPlain(n))

\* C1 as stated: for every column name s and options text o, timestamp("s", {o})
\* ends as integer("s", { mode: "timestamp" }) and timestamp("s") ends as
\* integer("s"), or integer("s", { mode: "boolean" }) for the five boolean
\* names, with the name s itself unchanged.
C1_Original ==
    pc = "done" => \A s \in TsNames : TimestampOutcome(s, s)

\* C1 amended: the same outcome, for the column name as rules 5 and 6 leave
\* it: every pgTable in s has become sqliteTable and every varchar has become
\* text before the timestamp rules run; names holding neither are unchanged.
C1_TimestampSpecificFirst ==
    pc = "done" => \A s \in TsNames : TimestampOutcome(s, Renamed(s))

C1_Witness ==
    /\ pc = "done"
    /\ Contains(source, TsCall(T("created_at"), T(" withTimezone: true ")))
    /\ Contains(content, IntTimestamp(T("created_at")))
    /\ Contains(source, TsPlain(T("is_active")))
    /\ Contains(content, IntBoolean(T("is_active")))


\* columns outside the list of five, and an options text already present
OtherBooleanNames == { T("archived"), T("varchar_flag") }

OtherMode == T(" mode: \"something_else\" ")

\* the outcome of the boolean rules; out[d] is the name column d has in the output
BooleanOutcome(out) ==
    /\ \A c \in FiveBooleanNames :
          /\ (Contains(source, BoolCall(c)) \/ Contains(source, IntPlain(c))) =>
                /\ Contains(content, IntBoolean(c))
                /\ ~Contains(content, IntPlain(c))
                /\ ~Contains(content, BoolCall(c))
          /\ source \in { BoolCall(c), IntPlain(c) } => content = HeaderText \o IntBoolean(c)
          /\ Contains(source, IntWith(c, OtherMode)) => Contains(content, IntWith(c, OtherMode))
          /\ source = IntWith(c, OtherMode) => content = HeaderText \o source
    /\ \A d \in OtherBooleanNames :
          /\ Contains(source, BoolCall(d)) =>
                /\ Contains(content, IntPlain(out[d]))
                /\ ~Contains(content, IntBoolean(out[d]))
                /\ ~Contains(content, BoolCall(out[d]))
          /\ source = BoolCall(d) => content = HeaderText \o IntPlain(out[d])

SameNames == [d \in OtherBooleanNames |-> d]

RenamedNames == [d \in OtherBooleanNames |-> Renamed(d)]

\* C6 as stated: boolean("c") and integer("c") end as
\* integer("c", { mode: "boolean" }) for the five names, integer("c", {...})
\* is left alone, and boolean("d") for any other column d ends as
\* integer("d") with the name d unchanged.
C6_Original ==
    pc = "done" => BooleanOutcome(SameNames)

\* C6 amended: the same, with boolean("d") ending as integer("d'") without a
\* mode annotation, d' being d as rules 5 and 6 leave it (pgTable ->
\* sqliteTable, varchar -> text); d' = d for names holding neither.
C6_BooleanMode ==
    pc = "done" => BooleanOutcome(RenamedNames)

C6_Witness ==
    /\ pc = "done"
    /\ Contains(source, BoolCall(T("is_active")))
    /\ Contains(content, IntBoolean(T("is_active")))
    /\ Contains(source, IntWith(T("is_active"), OtherMode))
    /\ Contains(content, IntWith(T("is_active"), OtherMode))


(***************************************************************************)
(* Enum columns.                                                           *)
(***************************************************************************)

EnumCall(e, c) == e \o T("(") \o Quoted(c) \o T(")")

TextCall(c) == T("text(") \o Quoted(c) \o T(")")

\* the pairs of the list, spelled out
ListedPairs ==
    << <<T("statusEnum"), T("status")>>,
       <<T("warehouseCategoryEnum"), T("category")>>,
       <<T("warehouseStatusEnum"), T("status")>>,
       <<T("transactionTypeEnum"), T("type")>>,
       <<T("financialTypeEnum"), T("type")>>,
       <<T("installationStatusEnum"), T("status")>>,
       <<T("priorityEnum"), T("priority")>>,
       <<T("documentTypeEnum"), T("type")>>,
       <<T("messageTypeEnum"), T("message_type")>>,
       <<T("dealDocumentTypeEnum"), T("document_type")>>,
       <<T("customFieldTypeEnum"), T("field_type")>> >>

\* calls whose enum identifier or column name is not a listed pair
UnlistedCalls ==
    { EnumCall(T("statusEnum"), T("other_column")),
      EnumCall(T("substatusEnum"), T("status")),
      EnumCall(T("roleEnum"), T("role")),
      EnumCall(T("priorityEnum"), T("status")) }

\* C2: a call E("c") is rewritten to text("c") only when (E, c) is a listed
\* pair; every call whose enum identifier or column name is not listed,
\* substatusEnum("status") and statusEnum("other_column") included, is in the
\* output unmodified.
C2_ExactEnumMatch ==
    pc = "done" =>
        /\ \A k \in 1..Len(ListedPairs) :
              source = EnumCall(ListedPairs[k][1], ListedPairs[k][2]) =>
                  content = HeaderText \o TextCall(ListedPairs[k][2])
        /\ \A call \in UnlistedCalls :
              /\ Contains(source, call) => Contains(content, call)
              /\ source = call => content = HeaderText \o call

\* C3 as stated: the enum loop makes twelve iterations.
C3_Original ==
    Past("enum_loop") => enum_i = 12

\* C3 amended: the enum loop makes exactly eleven iterations; iteration k
\* applies the k-th listed pair, once, and the loop is left after the
\* eleventh.
C3_ElevenPairsInOrder ==
    [][ /\ pc = "enum_loop" =>
            /\ enum_i' = enum_i + 1
            /\ enum_i' <= 11
            /\ content' = StrReplaceFrom(content,
                              EnumCall(ListedPairs[enum_i'][1], ListedPairs[enum_i'][2]),
                              TextCall(ListedPairs[enum_i'][2]), 1)
            /\ (pc' = "enum_loop" <=> enum_i' < 11)
        /\ pc # "enum_loop" => enum_i' = enum_i
        /\ Past("enum_loop")' => enum_i' = 11
      ]_vars

C3_Witness ==
    /\ pc = "fix_default_true"
    /\ enum_i = 11
    /\ Contains(source, EnumCall(T("customFieldTypeEnum"), T("field_type")))
    /\ Contains(source, EnumCall(T("statusEnum"), T("status")))
    /\ ~Contains(content, T("Enum("))
    /\ Contains(content, TextCall(T("field_type")))


(***************************************************************************)
(* Import lines and the prepended header.                                  *)
(***************************************************************************)

\* s.split("\n"), from position i
RECURSIVE LinesFrom(_, _)
LinesFrom(s, i) ==
    LET k == FindChar(s, T("\n"), i)
    IN  IF k = 0 THEN << From(s, i) >>
        ELSE << SubSeq(s, i, k - 1) >> \o LinesFrom(s, k + 1)

Lines(s) == LinesFrom(s, 1)

LineSet(s) == { Lines(s)[k] : k \in 1..Len(Lines(s)) }

\* the lines of the source file as the script reads them
SourceLines == Lines(UniversalNewlines(source))

SourceLineSet == { SourceLines[k] : k \in 1..Len(SourceLines) }

\* the import lines of the claim, spelled out
PgImportLine ==
    T("import { pgTable, text, varchar, integer, timestamp, pgEnum, numeric, boolean, jsonb } from \"drizzle-orm/pg-core\";")

SqliteImportLine ==
    T("import { sqliteTable, text, integer, real } from \"drizzle-orm/sqlite-core\";")

SqlImportLine == T("import { sql } from \"drizzle-orm\";")

ShortPgImportLine == T("import { pgTable, varchar } from \"drizzle-orm/pg-core\";")

\* C4 as stated: when the source holds the exact nine-helper import line, the
\* output holds the sqlite-core import line, and every other line of the
\* source that begins with "import " is a line of the output, unaltered.
C4_Original ==
    (pc = "done" /\ Contains(source, PgImportLine)) =>
        /\ Contains(content, SqliteImportLine)
        /\ \A line \in SourceLineSet :
              (StartsWith(line, T("import ")) /\ line # PgImportLine) => line \in LineSet(content)

\* C4 amended: rule 1 replaces the exact import text and nothing else: it
\* keeps the number of lines, turns a line equal to the import into the
\* sqlite-core import line, and leaves every line not holding the import
\* text as it was.  In the output the sqlite-core line is there whenever the
\* source held the import; other import lines are kept only when no later
\* rule matches in them: rule 2 empties a line equal to the sql import, and
\* rules 5 and 6 rewrite pgTable and varchar inside another pg-core import.
C4_ImportRuleFrame ==
    /\ pc = "remove_sql_import" =>
          /\ Len(Lines(content)) = Len(SourceLines)
          /\ \A k \in 1..Len(SourceLines) :
                LET before == SourceLines[k]
                    after == Lines(content)[k]
                IN  /\ before = PgImportLine => after = SqliteImportLine
                    /\ Contains(before, PgImportLine) =>
                          (Contains(after, SqliteImportLine) /\ ~Contains(after, PgImportLine))
                    /\ ~Contains(before, PgImportLine) => after = before
    /\ pc = "add_nanoid" =>
          /\ Len(Lines(content)) = Len(SourceLines)
          /\ \A k \in 1..Len(SourceLines) :
                SourceLines[k] = SqlImportLine => Lines(content)[k] = << >>
    /\ pc = "done" =>
          /\ Contains(source, PgImportLine) => Contains(content, SqliteImportLine)
          /\ ShortPgImportLine \in SourceLineSet =>
                /\ ShortPgImportLine \notin LineSet(content)
                /\ T("import { sqliteTable, text } from \"drizzle-orm/pg-core\";") \in LineSet(content)
          /\ \A line \in SourceLineSet :
                ( /\ StartsWith(line, T("import "))
                  /\ ~Contains(line, PgImportLine)
                  /\ ~Contains(line, SqlImportLine)
                  /\ ~Contains(line, T("pgTable"))
                  /\ ~Contains(line, T("varchar")) ) => line \in LineSet(content)

C4_Witness ==
    /\ pc = "done"
    /\ source = PgImportLine \o T("\n") \o T("import { relations } from \"drizzle-orm\";") \o T("\n")
    /\ SqliteImportLine \in LineSet(content)
    /\ T("import { relations } from \"drizzle-orm\";") \in LineSet(content)

\* the buffer without its first Len(HeaderText) characters
AfterHeader(c) == SubSeq(c, Len(HeaderText) + 1, Len(c))

\* C10: the prepend step puts exactly the two header lines and a blank line
\* in front of the buffer; every later statement leaves the header in place
\* and has on the buffer the effect it has on the text after the header
\* alone, so no rule matches into the header; the bytes f.write hands to
\* the file object, in the file or still buffered, are the encoded buffer
\* and begin with the header, and so does the file after a close that
\* succeeds.
C10_HeaderIntact ==
    [][ /\ pc = "add_nanoid" => content' = HeaderText \o content
        /\ Past("add_nanoid") =>
              content' = HeaderText \o StatementResult(pc, AfterHeader(content), enum_i', bool_i')
        /\ (pc = "write_dest" /\ error' = "none") =>
              /\ StartsWith(dstFile'.bytes \o dstBuffer', HeaderText)
              /\ dstFile'.bytes \o dstBuffer' = FileBytes(content)
        /\ (pc = "close_dest" /\ pc' = "print") =>
              /\ StartsWith(dstFile'.bytes, HeaderText)
              /\ dstFile'.bytes = FileBytes(content)
      ]_vars

C10_Witness ==
    /\ pc = "done"
    /\ StartsWith(source, T("Enum = pgEnum("))
    /\ Contains(source, PgImportLine)
    /\ StartsWith(dstFile.bytes, HeaderText \o T("Enum = pgEnum("))


(***************************************************************************)
(* Table constructor.                                                      *)
(***************************************************************************)

\* the number of places where lit occurs in s
Count(s, lit) == Cardinality({ k \in 1..Len(s) : StartsAt(s, lit, k) })

\* C5 as stated: for every source text, the text written to the destination
\* holds no occurrence of pgTable.
C5_Original ==
    pc = "done" => ~Contains(dstFile.bytes, T("pgTable"))

\* C5 amended: rule 5 replaces every occurrence of pgTable in the buffer it
\* runs on by sqliteTable, so the buffer holds none right after it; of the
\* later statements only the .array() removal can bring one back, by joining
\* the text on either side of a removed .array().
C5_PgTableReplaced ==
    [][ /\ pc = "replace_pgtable" =>
            /\ ~Contains(content', T("pgTable"))
            /\ Count(content', T("sqliteTable")) =
                   Count(content, T("sqliteTable")) + Count(content, T("pgTable"))
            /\ Len(content') = Len(content) + 4 * Count(content, T("pgTable"))
        /\ (Past("replace_pgtable") /\ ~Contains(content, T("pgTable"))
              /\ Contains(content', T("pgTable"))) =>
            (pc = "remove_array" /\ Contains(content, T(".array()")))
      ]_vars

C5_Witness ==
    /\ pc = "done"
    /\ Contains(source, T("pgTable(\"deals\", {"))
    /\ Contains(source, T("// pgTable in a comment"))
    /\ Contains(dstFile.bytes, T("sqliteTable(\"deals\", {"))
    /\ Contains(dstFile.bytes, T("// sqliteTable in a comment"))
    /\ ~Contains(dstFile.bytes, T("pgTable"))


====
